---------------------------- MODULE Spec2Model ----------------------------
(***************************************************************************)
(* Model of the supervision and streaming layer of dg-electron:            *)
(*   AudioProcess        (src/unnamed/part_017, lines 111-275)             *)
(*   DeepgramSocket      (src/src/deepgram/DeepgramSocket.ts)              *)
(*   TranscriptionStream (src/src/transcription/BatchTranscriptionStream.ts*)
(*                        lines 283-396)                                   *)
(*   BatchTranscriptionStream (same file, lines 29-119)                    *)
(*   DeepgramBatch       (src/unnamed/part_019, lines 10-157)              *)
(*   DeepgramElectron    (same file, lines 420-623)                        *)
(*                                                                         *)
(* One pipeline (an AudioProcess, the DeepgramSocket and the stream object *)
(* that binds them) is one record; every handler of the source is an       *)
(* operator from such a record to the record after the handler has run to  *)
(* its end, so a synchronous chain (child stdout -> AudioProcess 'data' -> *)
(* stream listener -> DeepgramSocket.send) is a composition of operators.  *)
(* Timers are armed flags: an armed timer may fire at any later step.      *)
(* A continuation behind an await runs in the step of the event that       *)
(* settled the awaited promise (Resume, MgrResume).                        *)
(*                                                                         *)
(* Environment: a WebSocket emits 'error' and then 'close'; terminate()    *)
(* is followed by 'close' (after 'error' when still CONNECTING); a child   *)
(* that failed to spawn emits 'error' and never 'exit'; a child may exit   *)
(* at any time and its 'exit' event arrives after kill() has returned.     *)
(*                                                                         *)
(* Not modelled: the keepalive tick; stdout data of a child that has       *)
(* exited; a second stop() sequence begun while an earlier one of the same *)
(* stream is suspended, and a second close() of a socket while an earlier  *)
(* one is pending; a DeepgramElectron.start() issued while an earlier      *)
(* start() or stop() of the manager is suspended.  A response of Deepgram  *)
(* is handled in a run of its own (SpecResp), apart from the life cycle of *)
(* the stream, and in SpecLive, where one response arrives at some moment  *)
(* of that life cycle.  A stream that DeepgramElectron.start() replaces is *)
(* dropped from the state; orphans records that it held a live subprocess  *)
(* or an open socket, which nothing in the program releases afterwards.    *)
(* The decoding of the bytes of stderr into control messages is a run of   *)
(* its own (SpecStderr); elsewhere ChildStderr delivers one decoded        *)
(* message.  A DeepgramBatch is driven directly in SpecDG and SpecReply;   *)
(* under a batch stream the reply to an upload has at most one channel of  *)
(* one alternative.  The host listens to 'error' on every emitter.         *)
(***************************************************************************)
EXTENDS Integers, Sequences, FiniteSets, TLC

VARIABLES pl, mgr, scope

vars == <<pl, mgr, scope>>

(***************************************************************************)
(* Bounds                                                                  *)
(***************************************************************************)
\* children one AudioProcess spawns in a run
MaxChildren == 3

\* stdout chunks the children of one AudioProcess write in a run
MaxChunks == 2

Children == 1..MaxChildren

Sources == {"system", "mic"}

ErrorCodes == {"PERMISSION_DENIED", "CAPTURE_ERROR"}

(***************************************************************************)
(* Promises.  A promise is settled by the first resolve/reject call only;  *)
(* calls counts every resolve/reject call made on it.                      *)
(***************************************************************************)
NoPromise == [state |-> "none", error |-> "none", why |-> "none", calls |-> 0]

Pending == [state |-> "pending", error |-> "none", why |-> "none", calls |-> 0]

Settled(pr) == pr.state \in {"resolved", "rejected"}

Inc2(n) == IF n < 2 THEN n + 1 ELSE n

Inc1(n) == IF n < 1 THEN n + 1 ELSE n

Resolve(pr) ==
  IF pr.state = "pending"
    THEN [pr EXCEPT !.state = "resolved", !.calls = Inc2(@)]
    ELSE [pr EXCEPT !.calls = Inc2(@)]

Reject(pr, err, why) ==
  IF pr.state = "pending"
    THEN [pr EXCEPT !.state = "rejected", !.error = err, !.why = why, !.calls = Inc2(@)]
    ELSE [pr EXCEPT !.calls = Inc2(@)]

(***************************************************************************)
(* AudioProcess                                                            *)
(***************************************************************************)
\* One spawned child together with the closure of the start() call that
\* spawned it (resolved, timeout, the promise start() returned).
NoChild ==
  [st       |-> "unborn",   \* unborn | alive | failed (spawn error) | exited
   resolved |-> FALSE,      \* let resolved = false
   timeout  |-> FALSE,      \* the readiness timer is armed
   promise  |-> NoPromise,  \* the promise returned by start()
   errEvent |-> FALSE,      \* a spawn 'error' event is still to be delivered
   sigkill  |-> FALSE,      \* SIGKILL has been sent to this child, not exited yet
   gotReady |-> FALSE,      \* a ready message of this child, not exited yet, was read
   first    |-> "none",     \* first of ready|errmsg|spawnerr|exit|timeout to occur
   firstCode |-> "none"]    \* code of the error message when first = errmsg

AP0 ==
  [process     |-> 0,       \* this.process: 0 is null, else the child's number
   stopping    |-> FALSE,   \* this.stopping
   nSpawned    |-> 0,
   child       |-> [c \in Children |-> NoChild],
   killTimeout |-> FALSE,   \* the 3 s timer of stop() is armed
   stopChild   |-> 0,       \* child that stop() sent SIGTERM and whose exit it awaits
   apStop      |-> NoPromise, \* the promise of the stop() call in flight
   stopEarly   |-> FALSE,   \* a stop() call returned at once while a child was alive
                            \* (recorded in the runs of SpecStop)
   levelsRead  |-> 0,       \* audio_level messages read after the ready message, up to 1
   levelEvents |-> 0,       \* 'audio_level' events emitted by the AudioProcess
   stderrBuffer |-> <<>>,   \* this.stderrBuffer, a string as its UTF-16 code units
   stderrBytes |-> <<>>,    \* the bytes the child writes to stderr in this run
   stderrCuts  |-> {},      \* the offsets at which the pipe splits them into chunks
   stderrRead  |-> 0,       \* bytes delivered in 'data' events so far
   decoded     |-> <<>>]    \* the messages handed to the handler, in order

(***************************************************************************)
(* The stderr protocol.  A byte is a number; of the bytes a child may      *)
(* write the model keeps line feed (10), space (32), the double quote (34) *)
(* and the two bytes 195, 169 that encode U+00E9 in UTF-8.  A string is    *)
(* the sequence of its code units.                                         *)
(***************************************************************************)
MaxBytes == 5
\* the longest stderr stream of a run, in bytes

Bytes == {10, 32, 34, 195, 169}

\* Buffer.prototype.toString(): UTF-8 decoding in which every byte that is
\* not part of a complete sequence becomes U+FFFD
RECURSIVE toString(_)
toString(b) ==
  IF b = <<>> THEN <<>>
  ELSE IF b[1] = 195 /\ Len(b) >= 2 /\ b[2] = 169
         THEN <<233>> \o toString(SubSeq(b, 3, Len(b)))
  ELSE IF b[1] >= 128 THEN <<65533>> \o toString(Tail(b))
  ELSE <<b[1]>> \o toString(Tail(b))

\* String.prototype.split("\n")
RECURSIVE split(_)
split(str) ==
  IF \A i \in 1..Len(str) : str[i] # 10 THEN <<str>>
  ELSE LET i == CHOOSE k \in 1..Len(str) :
                  str[k] = 10 /\ \A j \in 1..(k - 1) : str[j] # 10
       IN <<SubSeq(str, 1, i - 1)>> \o split(SubSeq(str, i + 1, Len(str)))

\* String.prototype.trim()
RECURSIVE trim(_)
trim(str) ==
  IF str = <<>> THEN str
  ELSE IF str[1] = 32 THEN trim(Tail(str))
  ELSE IF str[Len(str)] = 32 THEN trim(SubSeq(str, 1, Len(str) - 1))
  ELSE str

\* JSON.parse succeeds: over these characters the only JSON text is a
\* string literal
IsJSON(str) ==
  /\ Len(str) >= 2
  /\ str[1] = 34 /\ str[Len(str)] = 34
  /\ \A i \in 2..(Len(str) - 1) : str[i] # 34

\* JSON.parse
JSONparse(str) == SubSeq(str, 2, Len(str) - 1)

\* the messages the loop of processStderrMessages hands to its handler
RECURSIVE DecodeLines(_)
DecodeLines(lines) ==
  IF lines = <<>> THEN <<>>
  ELSE LET trimmed == trim(lines[1]) IN
         (IF trimmed # <<>> /\ IsJSON(trimmed) THEN <<JSONparse(trimmed)>> ELSE <<>>)
           \o DecodeLines(Tail(lines))

\* processStderrMessages (part_017 lines 259-274), the handler recording
\* its argument
processStderrMessages(p) ==
  LET lines == split(p.stderrBuffer) IN
    [p EXCEPT !.stderrBuffer = lines[Len(lines)],
              !.decoded = @ \o DecodeLines(SubSeq(lines, 1, Len(lines) - 1))]

\* child.stderr.on("data") (part_017 lines 158-160)
OnStderrData(p, data) ==
  processStderrMessages([p EXCEPT !.stderrBuffer = @ \o toString(data)])

\* get isRunning (part_017 lines 255-257)
isRunning(p) == p.process # 0 /\ ~p.stopping

\* The first of the five settling events of a start() call to occur.
Occurs(p, c, kind, code) ==
  IF p.child[c].first = "none"
    THEN [p EXCEPT !.child[c].first = kind, !.child[c].firstCode = code]
    ELSE p

\* kill() (part_017 lines 248-253)
kill(p) ==
  IF p.process # 0
    THEN [p EXCEPT !.child[p.process].sigkill = TRUE, !.process = 0]
    ELSE p

\* ErrorFor without the PERMISSION_DENIED case
ErrorFor_AlwaysBinary(code) == "BinaryError"

\* the BinaryError / PermissionDeniedError choice (part_017 lines 169-180)
ErrorFor(code) ==
  IF code = "PERMISSION_DENIED" THEN "PermissionDeniedError" ELSE "BinaryError"


(***************************************************************************)
(* DeepgramSocket                                                          *)
(***************************************************************************)
MAX_RECONNECT_ATTEMPTS == 5

BASE_RECONNECT_DELAY_MS == 1000

\* WebSockets the DeepgramSocket of a stream creates in a run
MaxWs == 3

\* WebSockets a DeepgramSocket driven directly creates in a run
MaxConn == 6

\* connect() and close() calls the host makes on a DeepgramSocket it drives directly
MaxCalls == 2

WsIds == 1..(IF MaxConn > MaxWs THEN MaxConn ELSE MaxWs)

CloseCodes == {1000, 1006, 1008, 1011, 4001}

\* One WebSocket object made by createConnection, with the promise that
\* createConnection returned for it.
NoWs ==
  [rs      |-> "NONE",     \* NONE | CONNECTING | OPEN | CLOSING | CLOSED
   prom    |-> NoPromise,  \* the promise of createConnection()
   origin  |-> "none",     \* connect | reconnect
   errored |-> FALSE,      \* its 'error' event has been delivered
   errorEmitted |-> FALSE, \* the DeepgramSocket emitted 'error' for that event
   aborted |-> FALSE,      \* terminate() was called before it opened
   closeL  |-> FALSE,      \* carries a once('close') listener of close()
   late    |-> FALSE,      \* made by a reconnect that was waiting when close() was called
   closeStream |-> FALSE]  \* a CloseStream frame has been sent on it

Sock0 ==
  [ws                |-> 0,      \* this.ws: 0 is null, else the WebSocket's number
   nWs               |-> 0,
   sock              |-> [w \in WsIds |-> NoWs],
   keepaliveTimer    |-> FALSE,  \* this.keepaliveTimer !== null
   reconnectAttempts |-> 0,
   closing           |-> FALSE,
   connected         |-> FALSE,
   backoffs          |-> 0,      \* attemptReconnect calls waiting in their delay
   staleBackoffs     |-> 0,      \* those of them that were waiting when close() was called
   lastDelay         |-> 0,      \* delay of the latest attemptReconnect, in ms
   giveUp            |-> FALSE,  \* the non-retryable error has been emitted
   closePromise      |-> NoPromise,  \* the promise of the close() call in flight
   closeWs           |-> 0,      \* WebSocket that close() call waits for
   closeTimeout      |-> FALSE,  \* the 3 s timer of close() is armed
   hostCalls         |-> 0]      \* connect() and close() calls of the host of the socket

\* this.ws?.readyState === WebSocket.OPEN
WsIsOpen(p) == p.ws # 0 /\ p.sock[p.ws].rs = "OPEN"

\* get isConnected (DeepgramSocket.ts lines 98-100)
isConnected(p) == p.connected /\ WsIsOpen(p)

\* send(data) (DeepgramSocket.ts lines 54-58)
send(p, data) ==
  IF p.ws # 0 /\ p.sock[p.ws].rs = "OPEN"
    THEN [p EXCEPT !.sent = Append(@, data),
                   !.lateAudio = @ \/ p.sock[p.ws].closeStream]
    ELSE p

\* stopKeepalive (lines 203-208)
stopKeepalive(p) == [p EXCEPT !.keepaliveTimer = FALSE]

\* startKeepalive (lines 190-201)
startKeepalive(p) == [stopKeepalive(p) EXCEPT !.keepaliveTimer = TRUE]

\* shouldReconnect(code) (lines 210-214)
shouldReconnect(p, code) ==
  IF code = 1000 \/ code = 1008 \/ code = 4001
    THEN FALSE
    ELSE p.reconnectAttempts < MAX_RECONNECT_ATTEMPTS

Pow2(n) == IF n <= 0 THEN 1 ELSE 2 ^ n

\* attemptReconnect with the exponent one too large
attemptReconnect_NoShift(p) ==
  LET q == [p EXCEPT !.reconnectAttempts = @ + 1] IN
  [q EXCEPT !.lastDelay = BASE_RECONNECT_DELAY_MS * Pow2(q.reconnectAttempts),
            !.backoffs = @ + 1]

\* attemptReconnect up to its await of the delay (lines 216-223)
attemptReconnect(p) ==
  LET q == [p EXCEPT !.reconnectAttempts = @ + 1] IN
  [q EXCEPT !.lastDelay = BASE_RECONNECT_DELAY_MS * Pow2(q.reconnectAttempts - 1),
            !.backoffs = @ + 1]

\* createConnection (lines 102-113): a new WebSocket replaces this.ws
createConnection(p, origin) ==
  LET w == p.nWs + 1 IN
  [p EXCEPT !.nWs = w, !.ws = w,
            !.sock[w] = [NoWs EXCEPT !.rs = "CONNECTING", !.prom = Pending,
                                     !.origin = origin]]

\* ws.terminate(): the socket is destroyed; 'close' (after 'error' when the
\* handshake was still in progress) follows later
terminate(p, w) ==
  IF p.sock[w].rs = "CONNECTING"
    THEN [p EXCEPT !.sock[w].rs = "CLOSING", !.sock[w].aborted = TRUE]
    ELSE IF p.sock[w].rs = "OPEN"
      THEN [p EXCEPT !.sock[w].rs = "CLOSING"]
      ELSE p

\* connect() (lines 42-51); the caller has checked this.ws is null
connect(p) ==
  createConnection([p EXCEPT !.closing = FALSE, !.reconnectAttempts = 0], "connect")

\* close() (lines 61-96)
close(p) ==
  LET q == stopKeepalive([p EXCEPT !.closing = TRUE, !.staleBackoffs = p.backoffs]) IN
  IF q.ws = 0
    THEN [q EXCEPT !.closePromise = Resolve(Pending)]
    ELSE IF q.sock[q.ws].rs = "CLOSED"
      THEN [q EXCEPT !.ws = 0, !.closePromise = Resolve(Pending)]
      ELSE IF q.sock[q.ws].rs = "CONNECTING"
        \* ws.send throws while CONNECTING: the catch block runs
        THEN [terminate([q EXCEPT !.sock[q.ws].closeL = TRUE], q.ws)
                EXCEPT !.ws = 0, !.closeTimeout = FALSE, !.closeWs = 0,
                       !.closePromise = Resolve(Pending)]
        ELSE [q EXCEPT !.sock[q.ws].closeL = TRUE,
                       !.sock[q.ws].closeStream = (q.sock[q.ws].rs = "OPEN"),
                       !.closeTimeout = TRUE, !.closeWs = q.ws,
                       !.closePromise = Pending]

\* the closeTimeout callback of close() (lines 74-78)
OnCloseTimeout(p) ==
  LET q == IF p.ws # 0 THEN terminate(p, p.ws) ELSE p IN
  [q EXCEPT !.closeTimeout = FALSE, !.ws = 0, !.closeWs = 0,
            !.closePromise = Resolve(@)]

\* socket 'error' listeners of the stream (BatchTranscriptionStream.ts 324-326)
EmitSocketError(p) == IF p.nL > 0 THEN [p EXCEPT !.errorEvents = Inc1(@)] ELSE p

\* ws.on("open") (lines 115-122)
OnWsOpen(p, w) ==
  LET q == startKeepalive([p EXCEPT !.sock[w].rs = "OPEN", !.connected = TRUE,
                                    !.reconnectAttempts = 0]) IN
  [q EXCEPT !.sock[w].prom = Resolve(@)]

\* the catch block of attemptReconnect (lines 229-241)
ReconnectFailed(p) ==
  IF p.reconnectAttempts >= MAX_RECONNECT_ATTEMPTS
    THEN EmitSocketError([p EXCEPT !.giveUp = TRUE])
    ELSE p

\* ws.on("error") (lines 144-154), then the continuation of attemptReconnect
\* when this rejected the promise it awaits
OnWsError(p, w) ==
  LET q0 == [p EXCEPT !.sock[w].errored = TRUE, !.sock[w].rs = "CLOSING",
                      !.connected = FALSE]
      q1 == IF q0.reconnectAttempts = 0
              THEN [q0 EXCEPT !.sock[w].prom = Reject(@, "ConnectionError", "connect")]
              ELSE EmitSocketError([q0 EXCEPT !.sock[w].errorEmitted = TRUE])
  IN IF /\ p.sock[w].prom.state = "pending"
        /\ q1.sock[w].prom.state = "rejected"
        /\ q1.sock[w].origin = "reconnect"
       THEN ReconnectFailed(q1)
       ELSE q1

\* ws.on("close") (lines 133-142), then the once("close") listener of close()
\* (lines 80-84) when this WebSocket carries one
OnWsClose(p, w, code) ==
  LET q0 == stopKeepalive([p EXCEPT !.sock[w].rs = "CLOSED", !.connected = FALSE])
      q1 == IF ~q0.closing /\ shouldReconnect(q0, code)
              THEN attemptReconnect(q0)
              ELSE q0
  IN IF q1.sock[w].closeL
       THEN IF q1.closeWs = w
              THEN [q1 EXCEPT !.sock[w].closeL = FALSE, !.closeTimeout = FALSE,
                              !.ws = 0, !.closeWs = 0,
                              !.closePromise = Resolve(@)]
              \* the close() call of this listener has resolved already
              ELSE [q1 EXCEPT !.sock[w].closeL = FALSE, !.ws = 0]
       ELSE q1

\* attemptReconnect after its delay (lines 225-228); stale: this call was
\* waiting when close() was called
OnBackoff(p, stale) ==
  LET q == [p EXCEPT !.backoffs = @ - 1,
                     !.staleBackoffs = IF stale THEN @ - 1 ELSE @] IN
  IF q.closing
    THEN q
    ELSE [createConnection(q, "reconnect") EXCEPT !.sock[q.nWs + 1].late = stale]

\* connect() called by the host of the socket (lines 42-51)
SocketConnect(p) ==
  IF p.ws # 0
    THEN p   \* throws ConnectionError("Already connected")
    ELSE connect(p)


(***************************************************************************)
(* A DeepgramResponse: its type, whether it has a channel, the transcript  *)
(* of each alternative of the channel, and is_final (absent, true, false). *)
(***************************************************************************)
\* alternatives of one response
MaxAlternatives == 2

Transcripts == {"", "hello"}

Alternatives ==
  UNION {[1..n -> Transcripts] : n \in 0..MaxAlternatives}

NoResponse == [type |-> "none", hasChannel |-> FALSE, alts |-> <<>>, is_final |-> "absent"]

Responses ==
  {r \in [type : {"Results", "UtteranceEnd", "Metadata"}, hasChannel : BOOLEAN,
          alts : Alternatives, is_final : {"absent", "true", "false"}] :
     ~r.hasChannel => r.alts = <<>>}

(***************************************************************************)
(* DeepgramBatch (src/unnamed/part_019 lines 10-157).  A chunk is the      *)
(* number of its bytes.  The body of a reply is its results.channels, a    *)
(* channel is its alternatives and an alternative is its transcript; a     *)
(* missing results, channels or alternatives is the empty sequence and a   *)
(* missing transcript is "".                                               *)
(***************************************************************************)
MaxChunkLen == 2
\* the longest chunk a host adds to a DeepgramBatch, in bytes

MaxBatchChunks == 3
\* chunks a host adds to a DeepgramBatch in a run

MaxUploads == 2
\* HTTP requests of a DeepgramBatch in a run

MaxChannels == 2
\* channels in the body of a reply

DG0 ==
  [chunks     |-> <<>>,      \* this.chunks
   totalBytes |-> 0,         \* this.totalBytes
   added      |-> 0,         \* addChunk calls of the host in this run
   requests   |-> 0,         \* HTTP requests issued
   dgOp       |-> "none",    \* the latest operation on the DeepgramBatch
   dgPromise  |-> NoPromise, \* the promise of the latest transcribe() call
   dgEvents   |-> <<>>,      \* the value that promise was resolved with
   reply      |-> <<>>]      \* the body of the reply the server will send

BatchTranscripts == Transcripts \cup {"world"}

BodiesOf(nc, na, texts) ==
  UNION {[1..c -> UNION {[1..a -> texts] : a \in 0..na}] : c \in 0..nc}

\* the outcomes of postAudio (lines 79-126): a 2xx reply with a JSON body,
\* another status, a body that is not JSON, an 'error' of the request
Outcomes(bodies) ==
  [kind : {"ok"}, body : bodies]
    \cup [kind : {"status", "badjson", "neterror"}, body : {<<>>}]

\* get bytesRecorded (lines 27-29)
bytesRecorded_Chunks(p) == Len(p.chunks)

bytesRecorded(p) == p.totalBytes

\* addChunk (lines 31-34)
addChunk_CountsChunks(p, chunk) ==
  [p EXCEPT !.chunks = Append(@, chunk), !.totalBytes = @ + 1, !.dgOp = "addChunk"]

addChunk(p, chunk) ==
  [p EXCEPT !.chunks = Append(@, chunk), !.totalBytes = @ + chunk, !.dgOp = "addChunk"]

\* clear (lines 36-39)
clear(p) == [p EXCEPT !.chunks = <<>>, !.totalBytes = 0, !.dgOp = "clear"]

\* Buffer.concat(this.chunks).length
RECURSIVE ConcatLength(_)
ConcatLength(chunks) ==
  IF chunks = <<>> THEN 0 ELSE chunks[1] + ConcatLength(Tail(chunks))

\* transcribe (lines 41-52) up to the await of postAudio
transcribe_Unguarded(p) ==
  [p EXCEPT !.requests = @ + 1, !.dgPromise = Pending, !.dgOp = "transcribe"]

transcribe(p) ==
  IF p.totalBytes = 0
    THEN [p EXCEPT !.dgPromise = Reject(Pending, "Error", "No audio data recorded"),
                   !.dgOp = "transcribe"]
    ELSE [p EXCEPT !.requests = @ + 1, !.dgPromise = Pending, !.dgOp = "transcribe"]

\* the events of one channel (lines 133-152)
RECURSIVE EventsOf(_)
EventsOf(alternatives) ==
  IF alternatives = <<>> THEN <<>>
  ELSE (IF alternatives[1] = "" THEN <<>>
        ELSE <<[source |-> "system", transcript |-> alternatives[1], is_final |-> TRUE]>>)
         \o EventsOf(Tail(alternatives))

\* parseResponse (lines 128-156)
RECURSIVE parseResponse_FirstAlternative(_)
parseResponse_FirstAlternative(channels) ==
  IF channels = <<>> THEN <<>>
  ELSE (IF channels[1] = <<>> THEN <<>> ELSE EventsOf(<<channels[1][1]>>))
         \o parseResponse_FirstAlternative(Tail(channels))

RECURSIVE parseResponse(_)
parseResponse(channels) ==
  IF channels = <<>> THEN <<>>
  ELSE EventsOf(channels[1]) \o parseResponse(Tail(channels))

\* postAudio settles and transcribe() returns (lines 50-51, 97-121)
OnUploadEnd(p, out) ==
  IF out.kind = "ok"
    THEN [p EXCEPT !.dgPromise = Resolve(@), !.dgEvents = parseResponse(out.body),
                   !.dgOp = "reply"]
    ELSE [p EXCEPT !.dgPromise = Reject(@, "ConnectionError", "upload"),
                   !.dgEvents = <<>>, !.dgOp = "reply"]

(***************************************************************************)
(* The listeners a stream registers on its AudioProcess.  nL is the number *)
(* of times start() has registered them since the last removeAllListeners. *)
(***************************************************************************)
TS0 ==
  [mode       |-> "stream",  \* stream: TranscriptionStream, batch: BatchTranscriptionStream
   running    |-> FALSE,     \* this.running
   nL         |-> 0,
   awaitWs    |-> {},        \* WebSockets whose connect() a start() call awaits
   awaitChild |-> {},        \* children whose AudioProcess.start() a start() call awaits
   callOf     |-> [c \in Children |-> 0],  \* the start() call (its WebSocket) that spawned c
   lastCall   |-> 0,         \* the latest start() call (its WebSocket, 0 in batch mode)
   stopPc     |-> "idle",    \* idle | source | socket | upload: where stop() is suspended
   tsStart    |-> NoPromise, \* the promise of the latest start() call
   tsStop     |-> NoPromise, \* the promise of the stop() call in flight
   stoppedEvents |-> 0,      \* 'stopped' events emitted since the stop() sequence began
   stopSeq    |-> 0,         \* stop() calls made in a row on a running instance, up to 2
   exitSeq    |-> 0,         \* 1: a child exited while running and not stopping; 2: stop() since
   exitEvents |-> 0,         \* 'stopped' events emitted since that exit, up to 2
   errorEvents |-> 0,        \* 'error' events emitted by the stream, counted up to 1
   earlyData  |-> FALSE,     \* a 'data' event was emitted before the ready message
   closeEarly |-> FALSE,     \* stop() sent CloseStream while a child was alive
   lateAudio  |-> FALSE,     \* a chunk was sent on a WebSocket after CloseStream
   log        |-> <<>>,      \* batch stream: the events since the latest start() that
                             \* spawned a child, the byte count stop() read (bytes),
                             \* the HTTP request (request) and its outcome (reply,
                             \* failure), in order
   emitted    |-> <<>>,      \* every stdout chunk, with the state of the stream then
   recorded   |-> <<>>,      \* batch stream: the stdout chunks since the latest
                             \* start() that spawned a child
   sent       |-> <<>>,      \* every chunk handed to WebSocket.send
   response   |-> NoResponse, \* the response the socket has received
   handled    |-> FALSE,     \* handleResponse has run on it
   transcripts |-> <<>>,     \* the 'transcript' events emitted (batch stream: since
                             \* the latest start() that spawned a child)
   utterances |-> 0]         \* the 'utterance_end' events emitted

World0 == AP0 @@ Sock0 @@ DG0 @@ TS0

\* response.is_final ?? false (line 372)
IsFinal(r) == IF r.is_final = "absent" THEN FALSE ELSE r.is_final = "true"

\* handleResponse(response) (BatchTranscriptionStream.ts lines 364-395) of
\* the stream whose label is lab
handleResponse(p, lab, r) ==
  IF r.type = "Results" /\ r.hasChannel /\ Len(r.alts) > 0
    THEN LET alt == r.alts[1] IN
      IF alt = ""
        THEN p
        ELSE [p EXCEPT !.transcripts =
                Append(@, [source |-> lab, transcript |-> alt, is_final |-> IsFinal(r)])]
    ELSE IF r.type = "UtteranceEnd"
      THEN [p EXCEPT !.utterances = @ + 1]
      ELSE p

\* ws.on("message") (DeepgramSocket.ts lines 124-131): the socket emits
\* 'response', and every 'response' listener a start() call has registered
\* (BatchTranscriptionStream.ts lines 320-322) runs handleResponse
RECURSIVE EmitResponse(_, _, _, _)
EmitResponse(p, lab, r, n) ==
  IF n = 0 THEN p ELSE EmitResponse(handleResponse(p, lab, r), lab, r, n - 1)

OnWsMessage(p, lab, r) ==
  EmitResponse([p EXCEPT !.response = r, !.handled = TRUE], lab, r, p.nL)

\* an entry of the log of a batch stream
Logged(p, e, n) ==
  IF p.mode = "batch" THEN [p EXCEPT !.log = Append(@, [e |-> e, n |-> n])] ELSE p

\* the loop of BatchTranscriptionStream.stop() over the events (lines 104-107)
RECURSIVE EmitTranscripts(_, _, _)
EmitTranscripts(p, lab, events) ==
  IF events = <<>> THEN p
  ELSE EmitTranscripts([p EXCEPT !.transcripts = Append(@, [events[1] EXCEPT !.source = lab])],
                       lab, Tail(events))

\* source.on("data") of TranscriptionStream.start (lines 311-313) and of
\* BatchTranscriptionStream.start (lines 54-56)
OnSourceData(p, chunk) ==
  IF p.mode = "stream"
    THEN send(p, chunk)
    ELSE addChunk(p, chunk)

RECURSIVE EmitData(_, _, _)
\* this.emit("data", chunk): each registered listener runs once, in order
EmitData(p, chunk, n) ==
  IF n = 0 THEN p ELSE EmitData(OnSourceData(p, chunk), chunk, n - 1)

\* this.emit("stopped") of a stream
EmitStopped(p) ==
  Logged([p EXCEPT !.stoppedEvents = Inc2(@),
                   !.exitEvents = IF p.exitSeq >= 1 THEN Inc2(@) ELSE @],
         "stopped", 0)

\* source.on("exit") (lines 332-338 and 66-72)
OnSourceExit(p) ==
  IF p.running
    THEN EmitStopped([p EXCEPT !.running = FALSE])
    ELSE p

RECURSIVE EmitExit(_, _)
\* this.emit("exit", code, signal)
EmitExit(p, n) ==
  IF n = 0 THEN p ELSE EmitExit(OnSourceExit(p), n - 1)

\* this.emit("error", error) of the AudioProcess: source.on("error")
\* (lines 328-330 and 62-64) re-emits it on the stream
EmitSourceError(p) ==
  IF p.nL > 0 THEN Logged([p EXCEPT !.errorEvents = Inc1(@)], "error", 0) ELSE p

(***************************************************************************)
(* AudioProcess handlers                                                   *)
(***************************************************************************)
\* start() (part_017 lines 125-152); ok is FALSE when the spawn fails
start(p, ok) ==
  IF p.process # 0
    THEN p   \* throws BinaryError("Process already running")
    ELSE LET c == p.nSpawned + 1 IN
      [p EXCEPT !.nSpawned = c, !.process = c,
                !.child[c] = [NoChild EXCEPT !.st = IF ok THEN "alive" ELSE "failed",
                                             !.timeout = TRUE,
                                             !.promise = Pending,
                                             !.errEvent = ~ok]]

\* the readiness timer of start() (lines 134-145)
OnReadyTimeout(p, c) ==
  LET q == Occurs([p EXCEPT !.child[c].timeout = FALSE], c, "timeout", "none") IN
  IF ~q.child[c].resolved
    THEN [kill([q EXCEPT !.child[c].resolved = TRUE])
            EXCEPT !.child[c].promise = Reject(@, "BinaryError", "timeout")]
    ELSE q

\* child.stdout.on("data") (lines 154-156)
OnStdoutData(p, c, chunk) ==
  EmitData([p EXCEPT !.emitted = Append(@, [id |-> chunk, open |-> WsIsOpen(p),
                                            running |-> p.running]),
                     !.recorded = IF p.mode = "batch" THEN Append(@, chunk) ELSE @,
                     !.earlyData = @ \/ ~p.child[c].gotReady],
           chunk, p.nL)

\* OnStderrMessage without the test of resolved in the ready branch
OnStderrMessage_Unguarded(p, c, m) ==
  IF m.type = "ready"
    THEN [p EXCEPT !.child[c].gotReady = TRUE, !.child[c].resolved = TRUE,
                   !.child[c].timeout = FALSE,
                   !.child[c].first = IF @ = "none" THEN "ready" ELSE @,
                   !.child[c].promise = Resolve(@)]
    ELSE IF m.type = "error"
      THEN IF ~p.child[c].resolved
        THEN [p EXCEPT !.child[c].resolved = TRUE, !.child[c].timeout = FALSE,
                       !.child[c].first = IF @ = "none" THEN "errmsg" ELSE @,
                       !.child[c].firstCode = IF p.child[c].first = "none" THEN m.code ELSE @,
                       !.child[c].promise = Reject(@, "BinaryError", "errmsg")]
        ELSE p
      ELSE p

\* the handler of one control message read from stderr (lines 160-190)
OnStderrMessage(p, c, m) ==
  IF m.type = "ready"
    THEN LET q == [Occurs(p, c, "ready", "none") EXCEPT !.child[c].gotReady = TRUE] IN
      IF ~q.child[c].resolved
        THEN [q EXCEPT !.child[c].resolved = TRUE, !.child[c].timeout = FALSE,
                       !.child[c].promise = Resolve(@)]
        ELSE q
    ELSE IF m.type = "error"
      THEN LET q == Occurs(p, c, "errmsg", m.code) IN
        IF ~q.child[c].resolved
          THEN [q EXCEPT !.child[c].resolved = TRUE, !.child[c].timeout = FALSE,
                         !.child[c].promise = Reject(@, ErrorFor(m.code), "errmsg")]
          ELSE EmitSourceError(q)
      \* no branch of the handler matches an audio_level message
      ELSE IF m.type = "audio_level" /\ p.child[c].gotReady
        THEN [p EXCEPT !.levelsRead = Inc1(@)]
        ELSE p

\* child.on("error") (lines 193-202)
OnChildError(p, c) ==
  LET q == Occurs([p EXCEPT !.child[c].errEvent = FALSE], c, "spawnerr", "none") IN
  IF ~q.child[c].resolved
    THEN [q EXCEPT !.child[c].resolved = TRUE, !.child[c].timeout = FALSE,
                   !.child[c].promise = Reject(@, "BinaryError", "spawnerr")]
    ELSE EmitSourceError(q)

\* child.on("exit") (lines 204-221), then the once("exit") listener of
\* stop() (lines 236-241) when this child carries one
OnChildExit(p, c) ==
  LET q0 == Occurs([p EXCEPT !.child[c].st = "exited", !.child[c].sigkill = FALSE,
                             !.child[c].gotReady = FALSE, !.process = 0],
                   c, "exit", "none")
      q1 == IF ~q0.child[c].resolved
              THEN [q0 EXCEPT !.child[c].resolved = TRUE, !.child[c].timeout = FALSE,
                              !.child[c].promise = Reject(@, "BinaryError", "exit")]
              ELSE q0
      q2 == EmitExit(IF q1.running /\ q1.stopPc = "idle"
                       THEN [q1 EXCEPT !.exitSeq = 1, !.exitEvents = 0]
                       ELSE q1,
                     q1.nL)
  IN IF q2.stopChild = c
       THEN [q2 EXCEPT !.killTimeout = FALSE, !.process = 0, !.stopping = FALSE,
                       !.stopChild = 0, !.apStop = Resolve(@)]
       ELSE q2

\* stop() (lines 226-245)
stop(p) ==
  IF p.process = 0 \/ p.stopping
    THEN p   \* returns at once
    ELSE [p EXCEPT !.stopping = TRUE, !.killTimeout = TRUE, !.stopChild = p.process,
                   !.apStop = Pending]

\* the killTimeout callback of stop() (lines 231-234)
OnKillTimeout(p) ==
  LET q == [p EXCEPT !.killTimeout = FALSE] IN
  IF q.process # 0
    THEN [q EXCEPT !.child[q.process].sigkill = TRUE]
    ELSE q


(***************************************************************************)
(* TranscriptionStream and BatchTranscriptionStream                        *)
(***************************************************************************)
\* BatchTranscriptionStream.stop(), after this.batch.transcribe() has settled
\* (lines 102-113)
AfterTranscribe(p, lab) ==
  LET q == IF p.dgPromise.state = "resolved"
             THEN EmitTranscripts(p, lab, p.dgEvents)
             ELSE Logged([p EXCEPT !.errorEvents = Inc1(@)], "error", 0) IN
  \* the promise of transcribe() and its value are dropped with the call frame
  EmitStopped([clear(q) EXCEPT !.stopPc = "idle", !.tsStop = Resolve(@),
                               !.dgPromise = NoPromise, !.dgEvents = <<>>])

\* stop(), after this.socket.close() has resolved (lines 354-357)
AfterSocketClose(p) ==
  EmitStopped([p EXCEPT !.nL = 0, !.stopPc = "idle", !.tsStop = Resolve(@)])

\* stop(), after this.source.stop() has resolved (lines 352 and 87-95)
AfterSourceStop(p) ==
  IF p.mode = "stream"
    THEN LET q == [close(p) EXCEPT !.closeEarly =
                     @ \/ (WsIsOpen(p) /\ \E c \in Children : p.child[c].st = "alive")] IN
      IF q.closePromise.state = "resolved"
        THEN AfterSocketClose(q)
        ELSE [q EXCEPT !.stopPc = "socket"]
    ELSE LET bytes == bytesRecorded(p)
             q == Logged([p EXCEPT !.nL = 0], "bytes", bytes) IN
      IF bytes = 0
        THEN EmitStopped([q EXCEPT !.stopPc = "idle", !.tsStop = Resolve(@)])
        ELSE LET r == transcribe(Logged(Logged(q, "uploading", bytes),
                                        "processing", bytes)) IN
          IF r.dgPromise.state = "rejected"
            THEN AfterTranscribe(r, "system")
            ELSE Logged([r EXCEPT !.stopPc = "upload"], "request", ConcatLength(r.chunks))

\* stop(), after postAudio has settled (lines 102-113)
AfterUpload(p, lab, out) ==
  AfterTranscribe(Logged(OnUploadEnd(p, out),
                         IF out.kind = "ok" THEN "reply" ELSE "failure", 0), lab)

\* stop() up to its first await (lines 346-351 and 81-86)
TSstop(p) ==
  LET h == [p EXCEPT !.stopSeq = IF p.running /\ p.stopPc = "idle" THEN 1
                                 ELSE IF @ >= 1 THEN 2 ELSE 0,
                     !.exitSeq = IF @ >= 1 THEN 2 ELSE 0,
                     !.stoppedEvents = IF p.running THEN 0 ELSE @]
  IN IF ~h.running
       THEN h
       ELSE LET r == [h EXCEPT !.running = FALSE, !.tsStop = Pending] IN
         IF r.process = 0 \/ r.stopping
           \* source.stop() returns at once
           THEN AfterSourceStop(stop(r))
           ELSE [stop(r) EXCEPT !.stopPc = "source"]

\* TranscriptionStream.start() up to its first await (lines 304-308)
TSstart(p) ==
  LET h == [p EXCEPT !.stopSeq = 0, !.exitSeq = 0, !.exitEvents = 0] IN
  IF h.running
    THEN h
    ELSE IF h.ws # 0
      \* socket.connect() throws ConnectionError("Already connected")
      THEN [h EXCEPT !.tsStart = IF @.state = "pending" THEN @
                                 ELSE Reject(Pending, "ConnectionError", "already")]
      ELSE [connect(h) EXCEPT !.awaitWs = @ \cup {h.nWs + 1}, !.lastCall = h.nWs + 1,
                              !.tsStart = Pending]

\* BatchTranscriptionStream.start() up to its await (lines 50-74)
BatchStart(p, ok) ==
  LET h == [p EXCEPT !.stopSeq = 0, !.exitSeq = 0, !.exitEvents = 0] IN
  IF h.running
    THEN h
    ELSE LET q == [h EXCEPT !.nL = @ + 1] IN
      IF q.process # 0
        \* source.start() throws BinaryError("Process already running")
        THEN [q EXCEPT !.tsStart = IF @.state = "pending" THEN @
                                   ELSE Reject(Pending, "BinaryError", "already")]
        ELSE [start(q, ok) EXCEPT !.awaitChild = @ \cup {q.nSpawned + 1},
                                  !.callOf[q.nSpawned + 1] = 0, !.lastCall = 0,
                                  !.tsStart = Pending, !.log = <<>>,
                                  !.transcripts = <<>>, !.recorded = <<>>]

\* AfterConnect going on to source.start() although connect() was rejected
AfterConnect_Regardless(p, w, ok) ==
  LET q == [p EXCEPT !.awaitWs = @ \ {w}, !.nL = @ + 1] IN
  IF q.process # 0
    THEN IF w = q.lastCall
           THEN [q EXCEPT !.tsStart = Reject(@, "BinaryError", "already")]
           ELSE q
    ELSE [start(q, ok) EXCEPT !.awaitChild = @ \cup {q.nSpawned + 1},
                              !.callOf[q.nSpawned + 1] = w]

\* start() resumed after await this.socket.connect() on WebSocket w
\* (lines 310-341)
AfterConnect(p, w, ok) ==
  LET pr == p.sock[w].prom
      h  == [p EXCEPT !.awaitWs = @ \ {w}]
  IN IF pr.state = "rejected"
       THEN IF w = h.lastCall THEN [h EXCEPT !.tsStart = Reject(@, pr.error, pr.why)] ELSE h
       ELSE LET q == [h EXCEPT !.nL = @ + 1] IN
         IF q.process # 0
           \* source.start() throws BinaryError("Process already running")
           THEN IF w = q.lastCall
                  THEN [q EXCEPT !.tsStart = Reject(@, "BinaryError", "already")]
                  ELSE q
           ELSE [start(q, ok) EXCEPT !.awaitChild = @ \cup {q.nSpawned + 1},
                                     !.callOf[q.nSpawned + 1] = w]

\* start() resumed after await this.source.start() on child c
\* (lines 341-343 and 74-78)
AfterSourceStart(p, c) ==
  LET pr == p.child[c].promise
      h  == [p EXCEPT !.awaitChild = @ \ {c}]
  IN IF pr.state = "rejected"
       THEN IF p.callOf[c] = h.lastCall
              THEN [h EXCEPT !.tsStart = Reject(@, pr.error, pr.why)]
              ELSE h
       \* a stop() sequence that has completed ends when the instance runs again
       ELSE LET q == [h EXCEPT !.running = TRUE, !.exitSeq = 0, !.exitEvents = 0,
                               !.stoppedEvents = IF h.stopPc = "idle" THEN 0 ELSE @,
                               !.stopSeq = IF h.stopPc = "idle" THEN 0 ELSE @]
                r == Logged(Logged(q, "started", 0), "recording", 0) IN
         IF p.callOf[c] = r.lastCall THEN [r EXCEPT !.tsStart = Resolve(@)] ELSE r

\* the start() calls whose awaited promise has settled are resumed
ResumeStart(p, ok) ==
  LET W  == {w \in p.awaitWs : Settled(p.sock[w].prom)}
      q  == IF W = {} THEN p ELSE AfterConnect(p, CHOOSE w \in W : TRUE, ok)
      Cs == {c \in q.awaitChild : Settled(q.child[c].promise)}
  IN IF Cs = {} THEN q ELSE AfterSourceStart(q, CHOOSE c \in Cs : TRUE)

\* stop() resumed after an await
ResumeStop(p) ==
  IF p.stopPc = "source" /\ p.apStop.state = "resolved"
    THEN AfterSourceStop(p)
    ELSE IF p.stopPc = "socket" /\ p.closePromise.state = "resolved"
      THEN AfterSocketClose(p)
      ELSE p

\* the continuations that a handler has made runnable run before the next event
Resume(p, ok) == ResumeStop(ResumeStart(p, ok))


(***************************************************************************)
(* DeepgramElectron                                                        *)
(***************************************************************************)
\* no limit on the number of faults
Unlimited == 0 - 1

Mgr0 ==
  [running  |-> FALSE,    \* this.running
   enabled  |-> {},       \* sources whose config leaves them enabled
   mode     |-> "streaming", \* config.mode, which start() does not read
   streams  |-> {},       \* sources whose stream field is not null
   startPc  |-> "idle",   \* idle | awaiting: start() waits in Promise.all
   stopPc   |-> "idle",   \* idle | awaiting: stop() waits in Promise.all
   stoppedEvents |-> 0,   \* 'stopped' events emitted since the stop() sequence began
   startedEvents |-> 0,   \* 'started' events emitted by the manager, up to 1
   stopSeq  |-> 0,        \* stop() calls made in a row on a running instance, up to 2
   mStart   |-> NoPromise, \* the promise of the start() call in flight
   mStop    |-> NoPromise, \* the promise of the stop() call in flight
   orphans  |-> {},       \* sources of which a stream was replaced while it held a
                          \* live subprocess or an open socket
   budget   |-> Unlimited] \* faults the environment may still inject

\* the pipeline holds a live subprocess or an open socket
Occupied(p) ==
  \/ \E c \in Children : p.child[c].st = "alive"
  \/ \E w \in WsIds : p.sock[w].rs = "OPEN"

\* start() and stop() of DeepgramElectron resumed after Promise.all
\* (BatchTranscriptionStream.ts lines 487-489 and 506-511)
MgrResume(m, P) ==
  LET m1 == IF m.startPc = "awaiting"
              THEN IF \E s \in m.enabled : P[s].tsStart.state = "rejected"
                     THEN [m EXCEPT !.startPc = "idle",
                                    !.mStart = Reject(@, "Error", "stream")]
                     ELSE IF \A s \in m.enabled : P[s].tsStart.state = "resolved"
                       THEN [m EXCEPT !.startPc = "idle", !.running = TRUE,
                                      !.startedEvents = Inc1(@),
                                      !.stoppedEvents = 0, !.mStart = Resolve(@)]
                       ELSE m
              ELSE m
  IN IF m1.stopPc = "awaiting" /\ \A s \in m1.streams : P[s].stopPc = "idle"
       THEN [m1 EXCEPT !.stopPc = "idle", !.streams = {},
                       !.stoppedEvents = Inc2(@), !.mStop = Resolve(@)]
       ELSE m1

\* DeepgramElectron.start() up to its await (lines 434-487): every enabled
\* source gets a new TranscriptionStream, whose start() runs up to its await
DEstart_NoCheck(m, P) ==
  IF m.running
    THEN [m |-> m, P |-> P]
    ELSE [m |-> [m EXCEPT !.stopSeq = 0, !.streams = m.enabled, !.startPc = "awaiting",
                          !.mStart = Pending,
                          !.orphans = @ \cup {s \in m.enabled : Occupied(P[s])}],
          P |-> [s \in Sources |-> IF s \in m.enabled THEN TSstart(World0) ELSE P[s]]]

DEstart(m, P) ==
  IF m.running
    THEN [m |-> m, P |-> P]
    ELSE IF m.enabled = {}
      \* throws Error("At least one audio source must be enabled")
      THEN [m |-> [m EXCEPT !.stopSeq = 0, !.mStart = Reject(Pending, "Error", "disabled")],
            P |-> P]
      ELSE [m |-> [m EXCEPT !.stopSeq = 0, !.streams = m.enabled, !.startPc = "awaiting",
                            !.mStart = Pending,
                            !.orphans = @ \cup {s \in m.enabled : Occupied(P[s])}],
            P |-> [s \in Sources |-> IF s \in m.enabled THEN TSstart(World0) ELSE P[s]]]

\* DeepgramElectron.stop() up to its await (lines 493-505)
DEstop(m, P) ==
  LET h == [m EXCEPT !.stopSeq = IF m.running /\ m.stopPc = "idle" THEN 1
                                 ELSE IF @ >= 1 THEN 2 ELSE 0,
                     !.stoppedEvents = IF m.running THEN 0 ELSE @]
  IN IF ~h.running
       THEN [m |-> h, P |-> P]
       ELSE [m |-> [h EXCEPT !.running = FALSE, !.stopPc = "awaiting", !.mStop = Pending],
             P |-> [s \in Sources |-> IF s \in h.streams THEN TSstop(P[s]) ELSE P[s]]]

(***************************************************************************)
(* Actions.  scope is the object the host application drives: an           *)
(* AudioProcess ("process"), a DeepgramSocket ("socket"), one              *)
(* TranscriptionStream ("stream"), one BatchTranscriptionStream ("batch")  *)
(* or a DeepgramElectron ("manager").                                      *)
(***************************************************************************)
\* start() calls of a BatchTranscriptionStream between two removeAllListeners
MaxListeners == 3

\* start() calls the host makes on an AudioProcess it drives directly
MaxStarts == 2

\* failures of the environment in a run that starts from InitBounded
MaxFaults == 1

\* failures of the environment in a run of SpecHost
MaxHostFaults == 2

Messages ==
  {[type |-> "ready", code |-> "none"], [type |-> "audio_level", code |-> "none"]}
    \cup {[type |-> "error", code |-> k] : k \in ErrorCodes}

Active == IF scope = "manager" THEN Sources ELSE {"system"}

\* WebSockets the socket of a pipeline may create in this run
WsLimit == IF scope = "socket" THEN MaxConn ELSE MaxWs

\* One event handled by pipeline s, then the continuations of the manager.
\* fault: the event is a failure of the environment (a timer that expires,
\* an error, an unexpected exit or close), of which the run may be given a
\* limited budget.
Step(s, q, fault) ==
  /\ fault => mgr.budget # 0
  /\ pl' = [pl EXCEPT ![s] = q]
  /\ mgr' = MgrResume(IF fault /\ mgr.budget > 0 THEN [mgr EXCEPT !.budget = @ - 1] ELSE mgr,
                      [pl EXCEPT ![s] = q])
  /\ UNCHANGED scope

Put(s, q) == Step(s, q, FALSE)

\* the child writes one chunk to stdout
ChildStdout ==
  \E s \in Active : \E c \in Children :
    /\ pl[s].child[c].st = "alive"
    /\ Len(pl[s].emitted) < MaxChunks
    /\ Put(s, OnStdoutData(pl[s], c, Len(pl[s].emitted) + 1))

\* the child writes one control message line to stderr
ChildStderr ==
  \E s \in Active : \E c \in Children : \E m \in Messages :
    /\ pl[s].child[c].st = "alive"
    /\ Step(s, Resume(OnStderrMessage(pl[s], c, m), TRUE), m.type = "error")

\* the stderr pipe delivers the next chunk of the bytes the child wrote
StderrData ==
  /\ scope = "stderr"
  /\ \E s \in DOMAIN pl :
       LET p    == pl[s]
           n    == Len(p.stderrBytes)
           ends == {k \in p.stderrCuts \cup {n} : k > p.stderrRead}
           e    == CHOOSE k \in ends : \A j \in ends : k <= j
       IN /\ p.stderrRead < n
          /\ Put(s, OnStderrData([p EXCEPT !.stderrRead = e],
                                 SubSeq(p.stderrBytes, p.stderrRead + 1, e)))

\* the 'error' event of a child that could not be spawned
ChildSpawnError ==
  \E s \in Active : \E c \in Children :
    /\ pl[s].child[c].errEvent
    /\ Put(s, Resume(OnChildError(pl[s], c), TRUE))

\* the child exits, by itself or because of a signal
ChildExit ==
  \E s \in Active : \E c \in Children :
    /\ pl[s].child[c].st = "alive"
    /\ Step(s, Resume(OnChildExit(pl[s], c), TRUE),
            pl[s].stopChild # c /\ ~pl[s].child[c].sigkill)

ReadyTimeout ==
  \E s \in Active : \E c \in Children :
    /\ pl[s].child[c].timeout
    /\ Step(s, Resume(OnReadyTimeout(pl[s], c), TRUE), TRUE)

KillTimeout ==
  \E s \in Active :
    /\ pl[s].killTimeout
    /\ Step(s, Resume(OnKillTimeout(pl[s]), TRUE), TRUE)

WsOpen ==
  \E s \in Active : \E w \in WsIds : \E ok \in BOOLEAN :
    /\ pl[s].sock[w].rs = "CONNECTING"
    /\ (w \in pl[s].awaitWs /\ pl[s].process = 0)
         => pl[s].nSpawned < MaxChildren
    /\ Step(s, Resume(OnWsOpen(pl[s], w), ok), ~ok)

WsError ==
  \E s \in Active : \E w \in WsIds :
    /\ ~pl[s].sock[w].errored
    /\ \/ pl[s].sock[w].rs \in {"CONNECTING", "OPEN"}
       \/ pl[s].sock[w].rs = "CLOSING" /\ pl[s].sock[w].aborted
    /\ Step(s, Resume(OnWsError(pl[s], w), TRUE), ~pl[s].sock[w].aborted)

WsClose ==
  \E s \in Active : \E w \in WsIds : \E code \in CloseCodes :
    /\ \/ pl[s].sock[w].rs = "OPEN"
       \/ /\ pl[s].sock[w].rs = "CLOSING"
          /\ pl[s].sock[w].errored \/ ~pl[s].sock[w].aborted
    /\ Step(s, Resume(OnWsClose(pl[s], w, code), TRUE),
            pl[s].sock[w].rs = "OPEN" /\ ~pl[s].sock[w].closeStream)

Backoff ==
  \E s \in Active : \E stale \in BOOLEAN :
    /\ IF stale THEN pl[s].staleBackoffs > 0
                ELSE pl[s].backoffs > pl[s].staleBackoffs
    /\ pl[s].closing \/ pl[s].nWs < WsLimit
    /\ Put(s, Resume(OnBackoff(pl[s], stale), TRUE))

CloseTimeout ==
  \E s \in Active :
    /\ pl[s].closeTimeout
    /\ Step(s, Resume(OnCloseTimeout(pl[s]), TRUE), TRUE)

\* the host calls AudioProcess.start(), stop(), kill()
APStart ==
  /\ scope \in {"process", "stops"}
  /\ \E ok \in BOOLEAN :
       /\ pl["system"].process # 0 \/ pl["system"].nSpawned < MaxStarts
       /\ Step("system", start(pl["system"], ok), ~ok)

APStop == scope = "process" /\ Put("system", stop(pl["system"]))

\* the host calls stop() and notes whether the call returned at once,
\* changing nothing, while a child was alive
APStopWatched ==
  /\ scope = "stops"
  /\ LET p == pl["system"] IN
       Put("system", [stop(p) EXCEPT !.stopEarly =
                        @ \/ (stop(p) = p /\ \E c \in Children : p.child[c].st = "alive")])

APKill ==
  /\ scope \in {"process", "stops"}
  /\ pl["system"].process # 0
  /\ Put("system", kill(pl["system"]))

\* the host calls DeepgramSocket.connect(), close()
SockConnect ==
  /\ scope = "socket"
  /\ pl["system"].hostCalls < MaxCalls
  /\ pl["system"].ws # 0 \/ pl["system"].nWs < WsLimit
  /\ Put("system", [SocketConnect(pl["system"]) EXCEPT !.hostCalls = @ + 1])

SockClose ==
  /\ scope = "socket"
  /\ pl["system"].hostCalls < MaxCalls
  /\ pl["system"].closePromise.state # "pending"
  /\ Put("system", [close(pl["system"]) EXCEPT !.hostCalls = @ + 1])

\* the socket of a stream emits the response it has received
WsMessage ==
  /\ scope = "response"
  /\ \E s \in DOMAIN pl :
       /\ ~pl[s].handled
       /\ Put(s, handleResponse([pl[s] EXCEPT !.handled = TRUE], s, pl[s].response))

\* responses that make handleResponse emit an event
LiveResponses ==
  {r \in Responses : \/ r.type = "UtteranceEnd" /\ ~r.hasChannel /\ r.is_final = "absent"
                     \/ r.type = "Results" /\ r.alts = <<"hello">> /\ r.is_final = "true"}

\* a WebSocket of the stream receives a message while it is open
StreamMessage ==
  /\ scope = "live"
  /\ \E w \in WsIds : \E r \in LiveResponses :
       /\ ~pl["system"].handled
       /\ pl["system"].sock[w].rs = "OPEN"
       /\ Put("system", OnWsMessage(pl["system"], "system", r))

\* the host calls TranscriptionStream.start(), stop()
StreamStart ==
  /\ scope \in {"stream", "live"}
  /\ pl["system"].running \/ pl["system"].ws # 0 \/ pl["system"].nWs < MaxWs
  /\ Put("system", TSstart(pl["system"]))

StreamStop ==
  /\ scope \in {"stream", "live"}
  /\ pl["system"].running => pl["system"].stopPc = "idle"
  /\ Put("system", TSstop(pl["system"]))

\* the host calls BatchTranscriptionStream.start(), stop()
BatchStartCall ==
  /\ scope = "batch"
  /\ \E ok \in BOOLEAN :
       /\ pl["system"].running \/ pl["system"].nL < MaxListeners
       /\ pl["system"].running \/ pl["system"].process # 0
            \/ pl["system"].nSpawned < MaxChildren
       /\ pl["system"].stopPc = "idle"
       /\ Step("system", BatchStart(pl["system"], ok), ~ok)

BatchStop ==
  /\ scope = "batch"
  /\ pl["system"].running => pl["system"].stopPc = "idle"
  /\ Put("system", TSstop(pl["system"]))

\* the upload of DeepgramBatch.transcribe() settles
UploadDone ==
  \E s \in Active : \E out \in Outcomes(BodiesOf(1, 1, Transcripts)) :
    /\ pl[s].stopPc = "upload"
    /\ Step(s, AfterUpload(pl[s], s, out), out.kind # "ok")

\* the host calls DeepgramBatch.addChunk(), clear(), transcribe()
DGAddChunk ==
  /\ scope = "accumulator"
  /\ \E s \in DOMAIN pl : \E chunk \in 0..MaxChunkLen :
       /\ pl[s].added < MaxBatchChunks
       /\ Put(s, addChunk([pl[s] EXCEPT !.added = @ + 1], chunk))

DGClear ==
  /\ scope = "accumulator"
  /\ \E s \in DOMAIN pl : Put(s, clear(pl[s]))

DGTranscribe ==
  /\ scope = "accumulator"
  /\ \E s \in DOMAIN pl :
       /\ pl[s].dgPromise.state # "pending"
       /\ pl[s].requests < MaxUploads
       /\ Put(s, transcribe(pl[s]))

\* the request of a transcribe() call made by the host settles
DGUploadEnd ==
  /\ scope \in {"accumulator", "reply"}
  /\ \E s \in DOMAIN pl :
       \E out \in IF scope = "reply" THEN {[kind |-> "ok", body |-> pl[s].reply]}
                   ELSE Outcomes(BodiesOf(1, 1, Transcripts)) :
         /\ pl[s].dgPromise.state = "pending"
         /\ Put(s, OnUploadEnd(pl[s], out))

\* the host calls DeepgramElectron.start(), stop()
MgrStart ==
  /\ scope = "manager"
  /\ mgr.startPc = "idle" /\ mgr.stopPc = "idle"
  /\ LET r == DEstart(mgr, pl) IN
       /\ pl' = r.P
       /\ mgr' = MgrResume(r.m, r.P)
  /\ UNCHANGED scope

MgrStop ==
  /\ scope = "manager"
  /\ LET r == DEstop(mgr, pl) IN
       /\ pl' = r.P
       /\ mgr' = MgrResume(r.m, r.P)
  /\ UNCHANGED scope

NextChild == ChildStderr \/ ChildSpawnError \/ ChildExit \/ ReadyTimeout \/ KillTimeout

NextWs == WsOpen \/ WsError \/ WsClose \/ Backoff \/ CloseTimeout

\* the pipelines of a run: both sources under a DeepgramElectron, else one
PipelinesOf(sc) == IF sc = "manager" THEN Sources ELSE {"system"}

InitScope(sc) ==
  /\ scope = sc
  /\ pl = [s \in PipelinesOf(sc) |->
             [World0 EXCEPT !.mode = IF sc = "batch" THEN "batch" ELSE "stream"]]
  /\ mgr = Mgr0

\* A run in which the environment fails at most n times
InitBudget(sc, n) ==
  /\ scope = sc
  /\ pl = [s \in PipelinesOf(sc) |->
             [World0 EXCEPT !.mode = IF sc = "batch" THEN "batch" ELSE "stream"]]
  /\ \E en \in SUBSET Sources :
       /\ sc # "manager" => en = {}
       /\ mgr = [Mgr0 EXCEPT !.enabled = en, !.budget = n]

\* A run in which the environment fails at most MaxFaults times
InitBounded(sc) == InitBudget(sc, MaxFaults)

\* An AudioProcess driven directly
InitAP == InitScope("process")

NextAP == APStart \/ APStop \/ APKill \/ NextChild

SpecAP == InitAP /\ [][NextAP]_vars


\* An AudioProcess driven directly, the outcome of every stop() call noted
InitStop == InitScope("stops")

NextStop == APStart \/ APStopWatched \/ APKill \/ NextChild

SpecStop == InitStop /\ [][NextStop]_vars

\* A DeepgramSocket driven directly
InitSock == InitScope("socket")

NextSock == SockConnect \/ SockClose \/ NextWs

SpecSock == InitSock /\ [][NextSock]_vars

\* The stream of one source handles one response of Deepgram
InitResp ==
  /\ scope = "response"
  /\ \E lab \in Sources : \E r \in Responses :
       pl = [s \in {lab} |-> [World0 EXCEPT !.response = r]]
  /\ mgr = Mgr0

NextResp == WsMessage

SpecResp == InitResp /\ [][NextResp]_vars

\* The stderr reader of one AudioProcess is fed one stream of bytes, split
\* into chunks in one of the ways a pipe may split it
ByteStreams == UNION {[1..n -> Bytes] : n \in 0..MaxBytes}

InitStderr ==
  /\ scope = "stderr"
  /\ \E b \in ByteStreams : \E cuts \in SUBSET (1..(Len(b) - 1)) :
       pl = [s \in {"system"} |->
               [World0 EXCEPT !.stderrBytes = b, !.stderrCuts = cuts]]
  /\ mgr = Mgr0

NextStderr == StderrData

SpecStderr == InitStderr /\ [][NextStderr]_vars

\* A DeepgramBatch driven directly
InitDG == InitScope("accumulator")

NextDG == DGAddChunk \/ DGClear \/ DGTranscribe \/ DGUploadEnd

SpecDG == InitDG /\ [][NextDG]_vars

\* A DeepgramBatch that has uploaded one chunk receives a 2xx reply
Bodies == BodiesOf(MaxChannels, MaxAlternatives, BatchTranscripts)

InitReply ==
  /\ scope = "reply"
  /\ \E body \in Bodies :
       pl = [s \in {"system"} |-> [transcribe(addChunk(World0, 1)) EXCEPT !.reply = body]]
  /\ mgr = Mgr0

NextReply == DGUploadEnd

SpecReply == InitReply /\ [][NextReply]_vars

\* One TranscriptionStream driven directly
InitTS == InitBounded("stream")

NextTS == StreamStart \/ StreamStop \/ ChildStdout \/ NextChild \/ NextWs

SpecTS == InitTS /\ [][NextTS]_vars

\* A TranscriptionStream whose socket receives one response at some moment
\* of its life
InitLive == InitBounded("live")

NextLive == StreamStart \/ StreamStop \/ NextChild \/ NextWs \/ StreamMessage

SpecLive == InitLive /\ [][NextLive]_vars

\* One BatchTranscriptionStream driven directly
InitBatch == InitBounded("batch")

NextBatch == BatchStartCall \/ BatchStop \/ UploadDone \/ ChildStdout \/ NextChild

SpecBatch == InitBatch /\ [][NextBatch]_vars

\* The timers of the event loop fire, the upload settles, and a child that
\* stop() has signalled exits
FairSpecBatch ==
  /\ SpecBatch
  /\ WF_vars(ReadyTimeout) /\ WF_vars(KillTimeout) /\ WF_vars(UploadDone)
  /\ WF_vars(pl["system"].stopPc = "source" /\ ChildExit)

\* A DeepgramElectron driven by the host, in either mode of its config
TranscriptionModes == {"streaming", "batch"}

InitMgr ==
  /\ scope = "manager"
  /\ pl = [s \in Sources |-> World0]
  /\ \E en \in SUBSET Sources : \E md \in TranscriptionModes :
       mgr = [Mgr0 EXCEPT !.enabled = en, !.mode = md, !.budget = MaxFaults]

NextMgr == MgrStart \/ MgrStop \/ NextChild \/ NextWs

SpecMgr == InitMgr /\ [][NextMgr]_vars

\* A TranscriptionStream, a BatchTranscriptionStream or a DeepgramElectron
InitHost == \E sc \in {"stream", "batch", "manager"} : InitBudget(sc, MaxHostFaults)

\* stdout chunks are left out where stop() reads nothing that they change
BatchStdout == scope = "batch" /\ ChildStdout

NextHost ==
  \/ StreamStart \/ StreamStop
  \/ BatchStartCall \/ BatchStop \/ UploadDone
  \/ MgrStart \/ MgrStop
  \/ BatchStdout \/ NextChild \/ NextWs

SpecHost == InitHost /\ [][NextHost]_vars

\* The event loop fires a due timer: the readiness timer of every start()
\* call expires unless it has been cleared.
FairSpecAP == SpecAP /\ WF_vars(ReadyTimeout)

(***************************************************************************)
(* Claims about AudioProcess                                               *)
(***************************************************************************)
AP == pl["system"]

Alive(p) == {c \in Children : p.child[c].st = "alive"}

C3_SettledByFirst ==
  \A c \in Children :
    LET ch == AP.child[c] IN
      /\ ch.promise.calls <= 1
      /\ ch.first = "none" => ~Settled(ch.promise)
      /\ ch.first = "ready" => ch.promise.state = "resolved"
      /\ ch.first \in {"errmsg", "spawnerr", "exit", "timeout"}
           => ch.promise.state = "rejected" /\ ch.promise.why = ch.first

\* C3: start() settles exactly once.  Of the ready message, a startup error
\* message, a spawn error, the child's exit and the readiness timeout, the
\* first to occur decides whether the promise of start() is resolved or
\* rejected, resolve/reject is called once only, and every start() call
\* is eventually settled: again and again no start() call is pending (a
\* promise never returns to pending, so a call pending now is settled by
\* the next such moment).
C3_StartSettlesOnce ==
  /\ []C3_SettledByFirst
  /\ []<>(\A c \in Children : AP.child[c].promise.state # "pending")

\* a start() call rejected by its timeout whose child sent ready afterwards
C3_Witness ==
  \E c \in Children :
    /\ AP.child[c].first = "timeout" /\ AP.child[c].gotReady
    /\ AP.child[c].promise.state = "rejected"

\* C4 (as claimed): once start() has been rejected by the readiness timeout,
\* a startup error message or an exit before ready, no child of the
\* supervisor is alive and isRunning is false (until start() is called again).
C4_RejectedStartLeavesNothing ==
  \A c \in Children :
    (/\ c = AP.nSpawned
     /\ AP.child[c].promise.state = "rejected"
     /\ AP.child[c].promise.why \in {"timeout", "errmsg", "exit"})
      => Alive(AP) = {} /\ ~isRunning(AP)

\* C5 (as claimed): a start() call rejected by the readiness timeout is
\* rejected with a BinaryError, its child, unless it has exited, has been
\* sent SIGKILL, and the supervisor no longer holds the handle of that child.
C5_TimeoutKillsChild ==
  \A c \in Children :
    (AP.child[c].promise.state = "rejected" /\ AP.child[c].promise.why = "timeout")
      => /\ AP.child[c].promise.error = "BinaryError"
         /\ AP.child[c].st = "alive" => AP.child[c].sigkill
         /\ AP.process # c

\* C6 (as claimed): an AudioProcess never has two spawned children alive at
\* the same time.
C6_AtMostOneChildAlive == Cardinality(Alive(AP)) <= 1

\* C7 (as claimed): when the 3 s timer of a stop() has expired and the child
\* that stop() sent SIGTERM is still alive, that child has been sent SIGKILL
\* (so it exits, stop() resolves and no child remains alive).
C7_StopEscalatesToSigkill ==
  \A c \in Children :
    (AP.stopChild = c /\ ~AP.killTimeout /\ AP.child[c].st = "alive")
      => AP.child[c].sigkill

\* C8: an error message that arrives while start() is pending rejects
\* start(), with a PermissionDeniedError when its code is PERMISSION_DENIED
\* and with a BinaryError for every other code.
C8_StartupErrorClass ==
  \A c \in Children :
    AP.child[c].first = "errmsg"
      => /\ AP.child[c].promise.state = "rejected"
         /\ AP.child[c].promise.error =
              IF AP.child[c].firstCode = "PERMISSION_DENIED"
                THEN "PermissionDeniedError"
                ELSE "BinaryError"

\* start() calls rejected by a PERMISSION_DENIED and by another error message
C8_Witness ==
  /\ \E c \in Children : AP.child[c].promise.error = "PermissionDeniedError"
  /\ \E c \in Children :
       /\ AP.child[c].firstCode = "CAPTURE_ERROR"
       /\ AP.child[c].promise.error = "BinaryError"


(***************************************************************************)
(* Claims about the streams, the socket and the manager                    *)
(***************************************************************************)
TS == pl["system"]

Ids(q) == [i \in 1..Len(q) |-> q[i].id]

\* C1 (as claimed): in a running TranscriptionStream the chunks handed to
\* WebSocket.send are exactly the chunks the subprocess emitted while the
\* WebSocket of the DeepgramSocket was OPEN, each once and in the order
\* emitted.
C1_OpenChunksSentOnce ==
  SelectSeq(TS.sent, LAMBDA i : TS.emitted[i].running)
    = Ids(SelectSeq(TS.emitted, LAMBDA e : e.running /\ e.open))

\* C2 (as claimed): an AudioProcess emits no 'data' event before it has read
\* the ready message of its child.
C2_NoDataBeforeReady == \A s \in DOMAIN pl : ~pl[s].earlyData

\* what holds for an object whose stop() was called on a running instance
\* (stopSeq = 1) and then again (stopSeq = 2)
StoppedOnce(seq, pc, events, promise) ==
  /\ seq >= 1 => events <= 1 /\ promise.state # "rejected"
  /\ (seq >= 1 /\ pc = "idle") => events = 1 /\ promise.state = "resolved"

\* C9 (as claimed): stop() called twice on a running TranscriptionStream,
\* BatchTranscriptionStream or DeepgramElectron, the second call after the
\* first or while the first is pending, emits stopped once and not twice,
\* and no stop() call is rejected.
C9_StopTwiceStoppedOnce ==
  IF scope = "manager"
    THEN StoppedOnce(mgr.stopSeq, mgr.stopPc, mgr.stoppedEvents, mgr.mStop)
    ELSE StoppedOnce(TS.stopSeq, TS.stopPc, TS.stoppedEvents, TS.tsStop)

\* C10 (as claimed): when the connection attempt of connect() has failed,
\* connect() is rejected with a ConnectionError and no reconnect is waiting
\* in its backoff delay.
C10_FirstFailureNoReconnect ==
  \A w \in WsIds :
    (/\ w = TS.nWs
     /\ TS.sock[w].origin = "connect"
     /\ TS.sock[w].prom.state = "rejected")
      => TS.sock[w].prom.error = "ConnectionError" /\ TS.backoffs = 0


(***************************************************************************)
(* Claims about DeepgramSocket                                             *)
(***************************************************************************)
\* the WebSockets of a socket that are connecting or open
Live(p) == {w \in WsIds : p.sock[w].rs \in {"CONNECTING", "OPEN"}}

\* C11 (as claimed): a DeepgramSocket never has two WebSockets that are
\* connecting or open at the same time.
C11_AtMostOneLiveConnection == \A s \in DOMAIN pl : Cardinality(Live(pl[s])) <= 1

\* C12 (as claimed): no WebSocket is created by a reconnect that was waiting
\* in its backoff delay when close() was called.
C12_CloseSuppressesReconnect ==
  \A s \in DOMAIN pl : \A w \in WsIds : ~pl[s].sock[w].late

\* the delays of the first to the fifth consecutive reconnect, in ms
Schedule == <<1000, 2000, 4000, 8000, 16000>>

C13_CounterAndDelay ==
  \A s \in DOMAIN pl :
    /\ pl[s].reconnectAttempts \in 0..MAX_RECONNECT_ATTEMPTS
    /\ pl[s].reconnectAttempts >= 1
         => pl[s].lastDelay = Schedule[pl[s].reconnectAttempts]

C13_Step ==
  \A s \in DOMAIN pl :
    \* a WebSocket that opens resets the counter
    /\ (\E w \in WsIds : pl[s].sock[w].rs # "OPEN" /\ pl'[s].sock[w].rs = "OPEN")
         => pl'[s].reconnectAttempts = 0
    \* every reconnect that is scheduled is the next of the sequence
    /\ pl'[s].backoffs > pl[s].backoffs
         => /\ pl[s].reconnectAttempts < MAX_RECONNECT_ATTEMPTS
            /\ pl'[s].reconnectAttempts = pl[s].reconnectAttempts + 1

\* C13: the k-th consecutive reconnect (k = 1..5, k being the attempt
\* counter of the socket, which connect() and every open reset to 0) is
\* made after 1000 * 2^(k-1) ms, that is 1 s, 2 s, 4 s, 8 s, 16 s; the
\* counter never exceeds 5, no reconnect is scheduled once it is 5, and a
\* WebSocket that opens sets it to 0.
C13_BackoffSchedule == []C13_CounterAndDelay /\ [][C13_Step]_vars

\* the fifth consecutive reconnect, made after 16 s, has failed
C13_Witness ==
  \E s \in DOMAIN pl :
    /\ pl[s].reconnectAttempts = 5 /\ pl[s].lastDelay = 16000 /\ pl[s].backoffs = 0
    /\ pl[s].nWs > 0
    /\ pl[s].sock[pl[s].nWs].origin = "reconnect"
    /\ pl[s].sock[pl[s].nWs].rs = "CLOSED"

\* C14 (as claimed): when the fifth consecutive reconnect has failed, the
\* socket has emitted the final error, a ConnectionError whose retryable
\* flag is false.
C14_ExhaustionEmitsFinalError ==
  \A s \in DOMAIN pl :
    (/\ pl[s].reconnectAttempts = MAX_RECONNECT_ATTEMPTS
     /\ pl[s].backoffs = 0 /\ ~pl[s].closing
     /\ pl[s].nWs > 0
     /\ pl[s].sock[pl[s].nWs].origin = "reconnect"
     /\ pl[s].sock[pl[s].nWs].errored
     /\ pl[s].sock[pl[s].nWs].rs = "CLOSED")
      => pl[s].giveUp


(***************************************************************************)
(* Claims about TranscriptionStream and BatchTranscriptionStream           *)
(***************************************************************************)
\* C15 (as claimed): when start() of a TranscriptionStream has been rejected
\* because the connection failed or because the subprocess failed to start,
\* the socket is not connected, no keepalive timer is active and no
\* subprocess is alive.
C15_RejectedStartLeavesNothing ==
  (/\ TS.tsStart.state = "rejected"
   /\ TS.tsStart.why \in {"connect", "errmsg", "spawnerr", "exit", "timeout"}
   /\ TS.awaitWs = {} /\ TS.awaitChild = {})
    => ~isConnected(TS) /\ ~TS.keepaliveTimer /\ Alive(TS) = {}

\* C16: every subprocess a TranscriptionStream has spawned was spawned by a
\* start() call whose connect() had resolved, that is after the WebSocket of
\* that call had opened; a call whose connection failed spawned nothing.
C16_SpawnAfterOpen ==
  \A s \in DOMAIN pl : \A c \in Children :
    (scope \in {"stream", "manager"} /\ pl[s].child[c].st # "unborn")
      => /\ pl[s].callOf[c] # 0
         /\ pl[s].sock[pl[s].callOf[c]].prom.state = "resolved"

\* the connection of start() failed, start() is rejected, nothing was spawned
C16_Witness ==
  /\ scope = "stream"
  /\ TS.tsStart.state = "rejected" /\ TS.tsStart.why = "connect"
  /\ TS.sock[1].prom.state = "rejected"
  /\ TS.nSpawned = 0

\* C17 (as claimed): stop() sends CloseStream only after the subprocess has
\* exited, and no audio frame is sent on a WebSocket after CloseStream.
C17_CloseStreamAfterExit ==
  \A s \in DOMAIN pl : ~pl[s].closeEarly /\ ~pl[s].lateAudio

\* C18 (as claimed): when the subprocess of a TranscriptionStream or
\* BatchTranscriptionStream exits while the stream is running and no stop()
\* is in progress, the stream is no longer running and has emitted stopped
\* once; a stop() called afterwards is not rejected and emits no second
\* stopped.  (The case ends when start() is called or makes the stream
\* run again.)
C18_ExitStopsOnce ==
  \A s \in DOMAIN pl :
    pl[s].exitSeq >= 1
      => /\ ~pl[s].running
         /\ pl[s].exitEvents = 1
         /\ pl[s].exitSeq = 2 => pl[s].tsStop.state # "rejected"

\* C19 (as claimed): a Results response produces exactly one transcript
\* event, tagged with the label of the stream, if and only if at least one
\* of its alternatives has non-empty text; is_final is false when the
\* response has none; any other response produces no transcript event.
C19_TranscriptIffText ==
  \A s \in DOMAIN pl :
    pl[s].handled
      => LET r == pl[s].response
             hasText == /\ r.type = "Results"
                        /\ \E i \in 1..Len(r.alts) : r.alts[i] # ""
         IN /\ Len(pl[s].transcripts) = IF hasText THEN 1 ELSE 0
            /\ \A i \in 1..Len(pl[s].transcripts) :
                 /\ pl[s].transcripts[i].source = s
                 /\ r.is_final = "absent" => ~pl[s].transcripts[i].is_final

\* C20 (as claimed): every audio_level message the subprocess writes after
\* the ready message produces one audio_level event of the AudioProcess.
C20_LevelEventPerMessage ==
  \A s \in DOMAIN pl : pl[s].levelEvents = pl[s].levelsRead

(***************************************************************************)
(* C21.  For any stderr byte stream and any way of splitting it into       *)
(* chunks, the messages decoded once every chunk has arrived are those     *)
(* decoded when the stream arrives as a single chunk; and at no time is    *)
(* the text after the last line feed decoded.                              *)
(***************************************************************************)
C21_ChunkingInvariant ==
  \A s \in DOMAIN pl :
    scope = "stderr" =>
      LET p == pl[s] IN
        /\ \A i \in 1..Len(p.stderrBuffer) : p.stderrBuffer[i] # 10
        /\ p.stderrRead = Len(p.stderrBytes) =>
              p.decoded = OnStderrData(World0, p.stderrBytes).decoded

DG == pl["system"]

(***************************************************************************)
(* C22.  transcribe() called with zero accumulated bytes rejects with the  *)
(* 'No audio' error and issues no HTTP request: while the accumulator      *)
(* holds zero bytes, a transcribe() call leaves the number of requests     *)
(* unchanged and its promise rejected with that error.                     *)
(***************************************************************************)
C22_Step ==
  (scope = "accumulator" /\ DG'.dgOp = "transcribe" /\ DG' # DG /\ DG.totalBytes = 0)
    => /\ DG'.requests = DG.requests
       /\ DG'.dgPromise.state = "rejected"
       /\ DG'.dgPromise.why = "No audio data recorded"

C22_NoAudioNoRequest == [][C22_Step]_vars

C22_Witness ==
  /\ scope = "accumulator"
  /\ DG.dgOp = "transcribe" /\ DG.totalBytes = 0 /\ DG.chunks # <<>>
  /\ DG.dgPromise.state = "rejected" /\ DG.requests = 0

(***************************************************************************)
(* C23.  bytesRecorded equals the sum of the lengths of the chunks added   *)
(* since construction or the last clear(); it decreases only through       *)
(* clear(), which sets it to 0 and empties the chunk list; transcribe()    *)
(* and the settling of its request leave the accumulator unchanged.        *)
(***************************************************************************)
C23_Sum ==
  scope = "accumulator" =>
    /\ bytesRecorded(DG) = ConcatLength(DG.chunks)
    /\ DG.dgOp = "clear" => bytesRecorded(DG) = 0 /\ DG.chunks = <<>>

C23_Step ==
  scope = "accumulator" =>
    /\ bytesRecorded(DG') < bytesRecorded(DG) => DG'.dgOp = "clear"
    /\ DG'.dgOp \in {"transcribe", "reply"} =>
         DG'.chunks = DG.chunks /\ DG'.totalBytes = DG.totalBytes

C23_Accumulator == []C23_Sum /\ [][C23_Step]_vars

C23_Witness ==
  /\ scope = "accumulator"
  /\ DG.dgOp = "reply" /\ DG.dgPromise.state = "rejected"
  /\ Len(DG.chunks) = 2 /\ bytesRecorded(DG) = 3

(***************************************************************************)
(* C24.  On a successful reply transcribe() returns one event for every    *)
(* alternative with a non-empty transcript, over all channels, in          *)
(* channel-then-alternative order, each with is_final = true, and no other *)
(* event.                                                                  *)
(***************************************************************************)
\* the alternatives of a body that have text, as <<channel, alternative>>
Spoken(body) ==
  {ca \in (1..Len(body)) \X (1..MaxAlternatives) :
     ca[2] <= Len(body[ca[1]]) /\ body[ca[1]][ca[2]] # ""}

Before(x, y) == x[1] < y[1] \/ (x[1] = y[1] /\ x[2] < y[2])

C24_EventPerAlternative ==
  (scope = "reply" /\ DG.dgPromise.state = "resolved") =>
    LET S == Spoken(DG.reply) IN
      /\ Len(DG.dgEvents) = Cardinality(S)
      /\ \A ca \in S :
           LET e == DG.dgEvents[Cardinality({x \in S : Before(x, ca)}) + 1] IN
             e.transcript = DG.reply[ca[1]][ca[2]] /\ e.is_final = TRUE

C24_Witness ==
  /\ scope = "reply" /\ DG.dgPromise.state = "resolved"
  /\ DG.reply = <<<<"", "world">>, <<"hello", "">>>>
  /\ Len(DG.dgEvents) = 2

(***************************************************************************)
(* C25.  When BatchTranscriptionStream.stop() runs with accumulated audio, *)
(* then whether the upload succeeds or fails: stop() is not rejected, a    *)
(* failed upload is followed by an error event, stopped is emitted at most *)
(* once from the stop() call on, and when stop() has completed it has      *)
(* resolved, stopped was emitted once and the accumulator is empty.        *)
(***************************************************************************)
\* stop() has read a byte count above zero
WithAudio(p) == \E i \in 1..Len(p.log) : p.log[i].e = "bytes" /\ p.log[i].n > 0

C25_StopWithAudio ==
  \A s \in DOMAIN pl :
    LET p == pl[s] IN
    (p.mode = "batch" /\ p.stopSeq >= 1 /\ WithAudio(p)) =>
      /\ p.tsStop.state # "rejected"
      /\ p.stoppedEvents <= 1
      /\ \A i \in 1..Len(p.log) :
           p.log[i].e = "failure" => i < Len(p.log) /\ p.log[i + 1].e = "error"
      /\ p.stopPc = "idle" =>
           /\ p.tsStop.state = "resolved"
           /\ p.stoppedEvents = 1
           /\ p.chunks = <<>> /\ bytesRecorded(p) = 0

(***************************************************************************)
(* C26.  In the events of a BatchTranscriptionStream: every started is     *)
(* followed at once by batch_progress 'recording' with bytesRecorded 0 and *)
(* there is no other 'recording'; a stop() that reads zero bytes emits     *)
(* stopped and then no batch_progress of the upload, no error and no       *)
(* request; a stop() that reads n > 0 bytes emits 'uploading' with n, then *)
(* 'processing' with n, and then issues its one request, of n bytes.       *)
(***************************************************************************)
Entry(e, n) == [e |-> e, n |-> n]

\* the entries from i + 1 up to the next byte count read by a stop()
UntilNextStop(log, i) ==
  {j \in (i + 1)..Len(log) :
     \A k \in (i + 1)..j : log[k].e # "bytes"}

C27_BatchOpensNoSocket ==
  (scope = "manager" /\ mgr.mode = "batch") => \A s \in DOMAIN pl : pl[s].nWs = 0

(***************************************************************************)
(* C28.  DeepgramElectron.isRunning is true only while one of its          *)
(* pipelines is active: when every stream it started has stopped because   *)
(* its subprocess exited unexpectedly, isRunning is false.                 *)
(***************************************************************************)
C28_RunningOnlyWhileActive ==
  (/\ scope = "manager"
   /\ mgr.streams # {}
   /\ \A s \in mgr.streams : pl[s].exitSeq >= 1 /\ ~pl[s].running)
    => ~mgr.running

(***************************************************************************)
(* C29.  When both sources are disabled, DeepgramElectron.start() rejects: *)
(* no subprocess is ever spawned, no WebSocket is ever created, no started *)
(* event is emitted, no start() call resolves or stays pending, and        *)
(* isRunning stays false.                                                  *)
(***************************************************************************)
C29_DisabledStartRejects ==
  (scope = "manager" /\ mgr.enabled = {}) =>
    /\ \A s \in DOMAIN pl : pl[s].nSpawned = 0 /\ pl[s].nWs = 0
    /\ mgr.startedEvents = 0
    /\ ~mgr.running
    /\ mgr.mStart.state \in {"none", "rejected"}
    /\ mgr.streams = {}

C29_Witness ==
  /\ scope = "manager" /\ mgr.enabled = {}
  /\ mgr.mStart.state = "rejected" /\ mgr.mStart.why = "disabled"

(***************************************************************************)
(* C30.  Every call of AudioProcess.stop() made while a child is alive,    *)
(* a second call made while an earlier one still waits for the exit        *)
(* included, resolves only after the child has exited, and never rejects.  *)
(***************************************************************************)
C30_StopResolvesAfterExit ==
  \A s \in DOMAIN pl :
    /\ ~pl[s].stopEarly
    /\ pl[s].apStop.state # "rejected"

(***************************************************************************)
(* C38.  Whenever a child spawned by an AudioProcess is alive and has not  *)
(* been sent SIGKILL, the AudioProcess holds the handle of that child: in  *)
(* particular the exit event of an earlier child never clears the handle   *)
(* of a child spawned later.                                               *)
(***************************************************************************)
C38_HoldsHandleOfAliveChild ==
  \A s \in DOMAIN pl : \A c \in Children :
    (pl[s].child[c].st = "alive" /\ ~pl[s].child[c].sigkill) => pl[s].process = c

(***************************************************************************)
(* C31.  When DeepgramElectron.start() has been rejected because a stream  *)
(* of an enabled source failed to start, the pipeline of a source whose    *)
(* own stream did not fail has no subprocess alive and no socket open and  *)
(* is not running, and isRunning is false.                                 *)
(***************************************************************************)
C31_RejectedStartLeavesNoPipeline ==
  (scope = "manager" /\ mgr.mStart.state = "rejected" /\ mgr.mStart.why = "stream") =>
    /\ ~mgr.running
    /\ \A s \in DOMAIN pl :
         pl[s].tsStart.state # "rejected" =>
           Alive(pl[s]) = {} /\ ~WsIsOpen(pl[s]) /\ ~pl[s].running

\* C32 (as claimed): whatever the order of the start() and stop() calls of
\* DeepgramElectron, a source never has two pipelines that hold a live
\* subprocess or an open socket: the stream of a source is never replaced,
\* while it holds one, by a stream that comes to hold one too.
C32_OnePipelinePerSource ==
  \A s \in DOMAIN pl : ~(scope = "manager" /\ s \in mgr.orphans /\ Occupied(pl[s]))

\* C33 (as claimed): the 'error' event of a WebSocket whose connection was
\* established (the promise of its createConnection() is resolved) has been
\* emitted as an 'error' event of the DeepgramSocket.
C33_EstablishedErrorEmitted ==
  \A s \in DOMAIN pl : \A w \in WsIds :
    (pl[s].sock[w].errored /\ pl[s].sock[w].prom.state = "resolved")
      => pl[s].sock[w].errorEmitted


\* the step is a close() call of the host on the DeepgramSocket
C34_Called(p, q) == scope = "socket" /\ q = [close(p) EXCEPT !.hostCalls = @ + 1]

\* the step settles a close() call: at once, or one that was pending
C34_Done(p, q) ==
  /\ q.closePromise.state = "resolved"
  /\ C34_Called(p, q) \/ p.closePromise.state = "pending"

C34_Pending ==
  \A s \in DOMAIN pl :
    /\ pl[s].closePromise.state # "rejected"
    /\ pl[s].closePromise.state = "pending" =>
         pl[s].closeTimeout /\ pl[s].closeWs # 0

C34_Step ==
  \A s \in DOMAIN pl :
    LET p == pl[s]
        q == pl'[s]
    IN /\ (C34_Called(p, q) /\ p.ws = 0) => q.closePromise.state = "resolved"
       /\ (C34_Called(p, q) /\ WsIsOpen(p)) =>
            /\ q.sock[p.ws].closeStream
            /\ q.closePromise.state = "pending"
       \* the 'close' event of the awaited socket resolves the call
       /\ (/\ p.closePromise.state = "pending"
           /\ p.sock[p.closeWs].rs # "CLOSED"
           /\ q.sock[p.closeWs].rs = "CLOSED") => q.closePromise.state = "resolved"
       \* the 3 s timer terminates the socket and resolves the call
       /\ (/\ p.closePromise.state = "pending"
           /\ p.closeTimeout /\ ~q.closeTimeout) =>
            /\ q.closePromise.state = "resolved"
            /\ q.sock[p.closeWs].rs \in {"CLOSING", "CLOSED"}
       /\ C34_Done(p, q) => q.ws = 0 /\ ~isConnected(q)

\* C34 (as claimed): close() never rejects; while it is pending its 3 s
\* timer is armed; called with no socket it resolves at once; called on an
\* open socket it sends CloseStream and resolves when that socket closes or
\* when the timer terminates it; at the step that resolves it the client
\* holds no socket and isConnected is false.
C34_CloseResolves == []C34_Pending /\ [][C34_Step]_vars

\* C35 (as claimed): the keepalive timer of a DeepgramSocket is active only
\* while close() has not been called since the latest connect() and while a
\* WebSocket of the client is open or on its way from open to closed.  (The
\* timer is the one field keepaliveTimer, and its tick, which is not
\* modelled, sends only under the test WsIsOpen.)
C35_NoTimerOnceClosed ==
  \A s \in DOMAIN pl :
    pl[s].keepaliveTimer =>
      /\ ~pl[s].closing
      /\ \E w \in WsIds : pl[s].sock[w].rs \in {"OPEN", "CLOSING"}

C36_Step ==
  \A s \in DOMAIN pl :
    (pl[s].mode = "stream" /\ pl'[s].stoppedEvents > pl[s].stoppedEvents)
      => ~isConnected(pl'[s]) /\ ~pl'[s].keepaliveTimer

\* C36 (as claimed): at every step in which a TranscriptionStream emits
\* 'stopped', after stop() or after an exit of its subprocess, its socket
\* is not connected and its keepalive timer is not active afterwards.
C36_StoppedMeansClosed == [][C36_Step]_vars

\* the stream has emitted 'stopped' since its latest start() call, which resolved
Stopped(p) ==
  /\ p.tsStart.state = "resolved" /\ ~p.running
  /\ p.stopPc = "idle" /\ p.stoppedEvents >= 1

C37_Step ==
  \A s \in DOMAIN pl :
    LET p == pl[s]
        q == pl'[s]
        emits == q.transcripts # p.transcripts \/ q.utterances # p.utterances
    IN /\ emits => ~Stopped(p)
       /\ (q.handled /\ ~p.handled /\ p.stopPc = "socket") =>
            emits /\ q.stoppedEvents = p.stoppedEvents

\* C37 (as claimed): a TranscriptionStream emits no transcript and no
\* utterance_end event once it has emitted 'stopped' and start() has not been
\* called since; a response that arrives while stop() waits for the socket
\* to close is emitted, and 'stopped' is not emitted before it.
C37_NoEventAfterStopped == [][C37_Step]_vars

\* C39 (as claimed): while the upload that stop() of a
\* BatchTranscriptionStream has requested is in flight, the audio of the
\* request is the sequence of the frames the subprocess has emitted since
\* the start() of that recording, each once and in order.
C39_UploadIsTheRecording ==
  \A s \in DOMAIN pl :
    (pl[s].mode = "batch" /\ pl[s].stopPc = "upload") => pl[s].chunks = pl[s].recorded

\* a recording of the batch stream has ended, by stop() or by an exit of the
\* subprocess, and the accumulator holds audio
C40_Ended ==
  /\ scope = "batch"
  /\ pl["system"].tsStart.state = "resolved" /\ ~pl["system"].running
  /\ bytesRecorded(pl["system"]) > 0

\* the upload of DeepgramBatch.transcribe() is in flight
C40_Attempted == pl["system"].stopPc = "upload"

\* C40 (as claimed): whenever a recording of a BatchTranscriptionStream has
\* ended with at least one byte in the accumulator, an upload of that audio
\* is attempted eventually.
C40_AudioNeverLost == C40_Ended ~> C40_Attempted

==============================================================================
